---- MODULE Spec2Model ----
(***************************************************************************)
(* A model of the RISCV assembly parser                                    *)
(* (lib/Target/RISCV/AsmParser/RISCVAsmParser.cpp): the operand routines,  *)
(* parseOperand and ParseInstruction, run over one statement of the token  *)
(* stream, and the operand predicates and MatchAndEmitInstruction applied  *)
(* to the parsed statement.  Source locations are token indices of the     *)
(* statement.                                                              *)
(***************************************************************************)
EXTENDS Integers, Sequences, FiniteSets, TLC

VARIABLES
  line,      \* the statement under the lexer: a sequence of tokens ending in EndOfStatement
  pos,       \* the lexer cursor: index of the current token
  Operands,  \* the operand sequence of the statement
  Diags,     \* the diagnostics reported so far, in order
  calls,     \* one record per routine call made in the driver's latest call, callee before caller
  pc,        \* "idle" before the driver's call, "done" after it, "matched" after the match
  classes    \* the predicates the matcher found each operand to pass

vars == <<line, pos, Operands, Diags, calls, pc, classes>>

\* ------------------------------------------------------------------ tokens

T(k) == [k |-> k, s |-> <<>>, v |-> 0]
Ident(s) == [k |-> "Identifier", s |-> s, v |-> 0]
Integer(v) == [k |-> "Integer", s |-> <<>>, v |-> v]

Percent == T("Percent")
LParen == T("LParen")
RParen == T("RParen")
Comma == T("Comma")
Minus == T("Minus")
EndOfStatement == T("EndOfStatement")
Eof == T("Eof")

\* ------------------------------------------------- register numbering

\* The target's register enumeration: 0 is "no register", every register has
\* its own non-zero number.
FBase == 1
PCNum == 33
XBase == 34
RISCV_F(n) == FBase + n
RISCV_X(n) == XBase + n

GR32Regs == [n \in 0..31 |-> RISCV_X(n)]
PCReg == [n \in 0..0 |-> PCNum]
FP32Regs == [n \in 0..31 |-> RISCV_F(n)]

\* A read of Regs[n]: inside the table its entry, outside it whatever follows
\* the table in memory (oob).
ReadRegs(Regs, n, oob) == IF n \in DOMAIN Regs THEN Regs[n] ELSE oob

\* --------------------------------------------------------- parser state
\* st = [pos, ops, diags, log]: the cursor, the operand sequence, the
\* diagnostics and the call log, threaded through the routines.

Tok(st) == IF st.pos <= Len(line) THEN line[st.pos] ELSE Eof

Lex(st) == [st EXCEPT !.pos = IF @ <= Len(line) THEN @ + 1 ELSE @]

Error(st, loc, msg) ==
  [st EXCEPT !.diags = Append(@, [Loc |-> loc, Msg |-> msg])]

push_back(st, op) == [st EXCEPT !.ops = Append(@, op)]

\* The record of one call: the routine, its caller, its result, its arguments
\* (arg) and the value it hands back (val), and the cursor, operand sequence
\* and diagnostic count on entry and on return.
Logged(st0, st1, fn, caller, res, arg, val) ==
  [st1 EXCEPT !.log = Append(@,
     [fn |-> fn, caller |-> caller, res |-> res, arg |-> arg, val |-> val,
      posIn |-> st0.pos, posOut |-> st1.pos,
      opsIn |-> st0.ops, opsOut |-> st1.ops,
      diagsIn |-> Len(st0.diags), diagsOut |-> Len(st1.diags)])]

\* What a routine returns: its result (an OperandMatchResultTy, or "true" /
\* "false" of a bool routine, true meaning failure), the parser state it
\* leaves, and the value of its output parameter.
R(res, st, val) == [res |-> res, st |-> st, val |-> val]

\* The return of routine fn entered in state st0: r, with the call logged.
Ret(st0, r, fn, caller, arg) ==
  [r EXCEPT !.st = Logged(st0, r.st, fn, caller, r.res, arg, r.val)]

RECURSIVE eatToEndOfStatement(_)
eatToEndOfStatement(st) ==
  IF Tok(st).k \notin {"EndOfStatement", "Eof"} THEN eatToEndOfStatement(Lex(st))
  ELSE IF Tok(st).k = "EndOfStatement" THEN Lex(st)
  ELSE st

\* ------------------------------------------------------------ operands

createToken(Str, Loc) ==
  [Kind |-> "KindToken", StartLoc |-> Loc, EndLoc |-> Loc, Token |-> Str]
createReg(Kind, Num, StartLoc, EndLoc) ==
  [Kind |-> "KindReg", StartLoc |-> StartLoc, EndLoc |-> EndLoc,
   RegKind |-> Kind, Num |-> Num]
createAccessReg(Num, StartLoc, EndLoc) ==
  [Kind |-> "KindAccessReg", StartLoc |-> StartLoc, EndLoc |-> EndLoc,
   AccessReg |-> Num]
createImm(Expr, StartLoc, EndLoc) ==
  [Kind |-> "KindImm", StartLoc |-> StartLoc, EndLoc |-> EndLoc, Imm |-> Expr]
\* MemOp keeps Base, Index and RegKind in 8-bit fields.
createMem(RegKind, Base, Disp, Index, StartLoc, EndLoc) ==
  [Kind |-> "KindMem", StartLoc |-> StartLoc, EndLoc |-> EndLoc,
   RegKind |-> RegKind, Base |-> Base % 256, Index |-> Index % 256,
   Disp |-> Disp]

\* --------------------------------------------------------- expressions
\* The generic expression parser: primary ('%' primary)*, where a primary is
\* an integer, a symbol or '-' primary.  An expression of constants is folded
\* to a constant; anything else stays symbolic.  A failure reports one
\* diagnostic at the offending token and consumes nothing further.

ConstExpr(v) == [isConst |-> TRUE, value |-> v, sym |-> <<>>]
SymExpr(text) == [isConst |-> FALSE, value |-> 0, sym |-> text]
\* The text of an operand of a symbolic expression.
ExprText(e) == IF e.isConst THEN <<"#">> ELSE e.sym

\* C's remainder: the sign follows the dividend.
CRem(a, b) ==
  LET aa == IF a < 0 THEN -a ELSE a
      bb == IF b < 0 THEN -b ELSE b
  IN IF a < 0 THEN -(aa % bb) ELSE aa % bb

NegExpr(r) ==
  IF r.res = "true" THEN r
  ELSE [r EXCEPT !.val = IF @.isConst THEN ConstExpr(-(@.value))
                         ELSE SymExpr(<<"-">> \o @.sym)]

ModExpr(lhs, rhs) ==
  IF lhs.isConst /\ rhs.isConst /\ rhs.value # 0
  THEN ConstExpr(CRem(lhs.value, rhs.value))
  ELSE SymExpr(ExprText(lhs) \o <<"%">> \o ExprText(rhs))

RECURSIVE parsePrimaryExpr(_)
parsePrimaryExpr(st) ==
  CASE Tok(st).k = "Integer" -> R("false", Lex(st), ConstExpr(Tok(st).v))
    [] Tok(st).k = "Identifier" -> R("false", Lex(st), SymExpr(Tok(st).s))
    [] Tok(st).k = "Minus" -> NegExpr(parsePrimaryExpr(Lex(st)))
    [] OTHER -> R("true", Error(st, st.pos, "unknown token in expression"),
                  SymExpr(<<>>))

RECURSIVE parseBinOpRHS(_, _)
RECURSIVE parseBinOpStep(_, _)
parseBinOpStep(lhs, r) ==
  IF r.res = "true" THEN r ELSE parseBinOpRHS(r.st, ModExpr(lhs, r.val))
parseBinOpRHS(st, lhs) ==
  IF Tok(st).k # "Percent" THEN R("false", st, lhs)
  ELSE parseBinOpStep(lhs, parsePrimaryExpr(Lex(st)))

parseExpressionRest(p) ==
  IF p.res = "true" THEN p ELSE parseBinOpRHS(p.st, p.val)

parseExpression(st, caller) ==
  Ret(st, parseExpressionRest(parsePrimaryExpr(st)), "parseExpression", caller, <<>>)

\* ---------------------------------------------------- StringRef helpers

Digits == {"0", "1", "2", "3", "4", "5", "6", "7", "8", "9"}
DigitValue(c) ==
  CASE c = "0" -> 0 [] c = "1" -> 1 [] c = "2" -> 2 [] c = "3" -> 3
    [] c = "4" -> 4 [] c = "5" -> 5 [] c = "6" -> 6 [] c = "7" -> 7
    [] c = "8" -> 8 [] c = "9" -> 9

\* Str.getAsInteger(10, Number): the value of a non-empty string of decimal
\* digits, -1 when the call reports failure.
RECURSIVE getAsUnsignedInteger(_, _)
getAsUnsignedInteger(Str, Result) ==
  IF Str = <<>> THEN Result
  ELSE IF Head(Str) \notin Digits THEN -1
  ELSE getAsUnsignedInteger(Tail(Str), Result * 10 + DigitValue(Head(Str)))

getAsInteger(Str) == IF Str = <<>> THEN -1 ELSE getAsUnsignedInteger(Str, 0)

\* ------------------------------------------------------------ registers

\* A Register whose Prefix and Number were never assigned: the failure paths
\* of parseRegister leave them so, and no caller reads them there.
UnsetReg(StartLoc) ==
  [Prefix |-> "", Number |-> 0, StartLoc |-> StartLoc, EndLoc |-> 0]

\* parseRegister(Register &Reg) from "Treat the rest of the register name as a
\* register number" on: s1 is at the identifier.
parseRegisterNumber(StartLoc, s1, Prefix, Number) ==
  IF Number = -1 THEN R("true", s1, UnsetReg(StartLoc))
  ELSE R("false", Lex(s1),
         [Prefix |-> Prefix, Number |-> Number,
          StartLoc |-> StartLoc, EndLoc |-> s1.pos])

\* parseRegister(Register &Reg) after the % was eaten: s1 is past it.
parseRegisterName(StartLoc, s1) ==
  IF Tok(s1).k # "Identifier" THEN R("true", s1, UnsetReg(StartLoc))
  ELSE IF Len(Tok(s1).s) < 2 THEN R("true", s1, UnsetReg(StartLoc))
  ELSE parseRegisterNumber(StartLoc, s1, Tok(s1).s[1],
                           getAsInteger(SubSeq(Tok(s1).s, 2, Len(Tok(s1).s))))

parseRegisterPercent(st) ==
  IF Tok(st).k # "Percent" THEN R("true", st, UnsetReg(st.pos))
  ELSE parseRegisterName(st.pos, Lex(st))

\* bool parseRegister(Register &Reg): one register of the form
\* %<prefix><number>; val is Reg.
parseRegister(st, caller) ==
  Ret(st, parseRegisterPercent(st), "parseRegister", caller, <<>>)

\* parseRegisterConvert without the bound on the register number.
parseRegisterConvert_NoBound(l, Prefix, Regs, IsAddress, oob) ==
  IF l.res = "true" THEN R("NoMatch", l.st, l.val)
  ELSE IF l.val.Prefix # Prefix \/ ReadRegs(Regs, l.val.Number, oob) = 0
    THEN R("ParseFail", Error(l.st, l.val.StartLoc, "invalid register"), l.val)
  ELSE IF l.val.Number = 0 /\ IsAddress
    THEN R("ParseFail", Error(l.st, l.val.StartLoc, "%r0 used in an address"), l.val)
  ELSE R("Success", l.st,
         [l.val EXCEPT !.Number = ReadRegs(Regs, l.val.Number, oob)])

\* parseRegisterConvert without the check for register 0 in an address.
parseRegisterConvert_NoZeroCheck(l, Prefix, Regs, IsAddress, oob) ==
  IF l.res = "true" THEN R("NoMatch", l.st, l.val)
  ELSE IF l.val.Prefix # Prefix \/ l.val.Number > 15
          \/ ReadRegs(Regs, l.val.Number, oob) = 0
    THEN R("ParseFail", Error(l.st, l.val.StartLoc, "invalid register"), l.val)
  ELSE R("Success", l.st,
         [l.val EXCEPT !.Number = ReadRegs(Regs, l.val.Number, oob)])

\* parseRegister(Reg, Prefix, Regs, IsAddress) after its lexical parse l.
parseRegisterConvert(l, Prefix, Regs, IsAddress, oob) ==
  IF l.res = "true" THEN R("NoMatch", l.st, l.val)
  ELSE IF l.val.Prefix # Prefix \/ l.val.Number > 15
          \/ ReadRegs(Regs, l.val.Number, oob) = 0
    THEN R("ParseFail", Error(l.st, l.val.StartLoc, "invalid register"), l.val)
  ELSE IF l.val.Number = 0 /\ IsAddress
    THEN R("ParseFail", Error(l.st, l.val.StartLoc, "%r0 used in an address"), l.val)
  ELSE R("Success", l.st,
         [l.val EXCEPT !.Number = ReadRegs(Regs, l.val.Number, oob)])

\* parseRegister(Reg, Prefix, Regs, IsAddress): parse a register with prefix
\* Prefix and convert it to LLVM numbering; val is Reg.
parseRegisterRegs(st, Prefix, Regs, IsAddress, oob, caller) ==
  Ret(st,
      parseRegisterConvert(parseRegister(st, "parseRegister(Regs)"),
                           Prefix, Regs, IsAddress, oob),
      "parseRegister(Regs)", caller,
      [Prefix |-> Prefix, Regs |-> Regs, IsAddress |-> IsAddress])

\* parseRegisterPush appending the register whatever the result.
parseRegisterPush_Always(r, Kind) ==
  [r EXCEPT !.st = push_back(@, createReg(Kind, r.val.Number,
                                           r.val.StartLoc, r.val.EndLoc))]

\* parseRegister(Operands, ...) after the resolver returned r.
parseRegisterPush(r, Kind) ==
  IF r.res = "Success"
  THEN [r EXCEPT !.st = push_back(@, createReg(Kind, r.val.Number,
                                               r.val.StartLoc, r.val.EndLoc))]
  ELSE r

\* parseRegister(Operands, Prefix, Regs, Kind, IsAddress): parse a register
\* and add it to Operands.
parseRegisterOperands(st, Prefix, Regs, Kind, IsAddress, oob, fn) ==
  Ret(st,
      parseRegisterPush(parseRegisterRegs(st, Prefix, Regs, IsAddress, oob, fn), Kind),
      fn, "MatchOperandParserImpl",
      [Prefix |-> Prefix, Kind |-> Kind, IsAddress |-> IsAddress])

\* ------------------------------------------------------------ addresses
\* parseAddress(Operands, Regs, RegKind, HasIndex):
\* Disp [ '(' Reg [',' Reg] ')' ].  The registers are resolved with prefix 'x'
\* in GR32Regs whatever Regs is.

\* The end of parseAddress: append the memory operand.
parseAddressPush(s, StartLoc, Disp, RegKind, Base, Index) ==
  R("Success",
    push_back(s, createMem(RegKind, Base, Disp, Index, StartLoc, s.pos - 1)),
    0)

\* "Consume the closing bracket."
parseAddressClose(s, StartLoc, Disp, RegKind, Base, Index) ==
  IF Tok(s).k # "RParen" THEN R("NoMatch", s, 0)
  ELSE parseAddressPush(Lex(s), StartLoc, Disp, RegKind, Base, Index)

\* parseAddressSecond with the two registers' roles exchanged.
parseAddressSecond_Swapped(r2, StartLoc, Disp, RegKind, Index) ==
  IF r2.res # "Success" THEN R(r2.res, r2.st, 0)
  ELSE parseAddressClose(r2.st, StartLoc, Disp, RegKind, Index, r2.val.Number)

\* After the second register r2 was parsed; Index is the first one.
parseAddressSecond(r2, StartLoc, Disp, RegKind, Index) ==
  IF r2.res # "Success" THEN R(r2.res, r2.st, 0)
  ELSE parseAddressClose(r2.st, StartLoc, Disp, RegKind, r2.val.Number, Index)

\* parseAddressFirst taking a lone register for the index.
parseAddressFirst_LoneIndex(r1, StartLoc, Disp, RegKind, HasIndex, oob, fn) ==
  IF r1.res # "Success" THEN R(r1.res, r1.st, 0)
  ELSE IF Tok(r1.st).k # "Comma"
    THEN parseAddressClose(r1.st, StartLoc, Disp, RegKind, 0, r1.val.Number)
  ELSE IF ~HasIndex
    THEN R("ParseFail",
           Error(Lex(r1.st), r1.val.StartLoc, "invalid use of indexed addressing"),
           0)
  ELSE parseAddressSecond(
         parseRegisterRegs(Lex(r1.st), "x", GR32Regs, TRUE, oob, fn),
         StartLoc, Disp, RegKind, r1.val.Number)

\* parseAddressFirst without the HasIndex check.
parseAddressFirst_NoIndexCheck(r1, StartLoc, Disp, RegKind, HasIndex, oob, fn) ==
  IF r1.res # "Success" THEN R(r1.res, r1.st, 0)
  ELSE IF Tok(r1.st).k # "Comma"
    THEN parseAddressClose(r1.st, StartLoc, Disp, RegKind, r1.val.Number, 0)
  ELSE parseAddressSecond(
         parseRegisterRegs(Lex(r1.st), "x", GR32Regs, TRUE, oob, fn),
         StartLoc, Disp, RegKind, r1.val.Number)

\* After the first register r1 was parsed.
parseAddressFirst(r1, StartLoc, Disp, RegKind, HasIndex, oob, fn) ==
  IF r1.res # "Success" THEN R(r1.res, r1.st, 0)
  ELSE IF Tok(r1.st).k # "Comma"
    THEN parseAddressClose(r1.st, StartLoc, Disp, RegKind, r1.val.Number, 0)
  ELSE IF ~HasIndex
    THEN R("ParseFail",
           Error(Lex(r1.st), r1.val.StartLoc, "invalid use of indexed addressing"),
           0)
  ELSE parseAddressSecond(
         parseRegisterRegs(Lex(r1.st), "x", GR32Regs, TRUE, oob, fn),
         StartLoc, Disp, RegKind, r1.val.Number)

\* After the displacement d was parsed.
parseAddressDisp(d, StartLoc, RegKind, HasIndex, oob, fn) ==
  IF d.res = "true" THEN R("NoMatch", d.st, 0)
  ELSE IF Tok(d.st).k # "LParen"
    THEN parseAddressPush(d.st, StartLoc, d.val, RegKind, 0, 0)
  ELSE parseAddressFirst(
         parseRegisterRegs(Lex(d.st), "x", GR32Regs, TRUE, oob, fn),
         StartLoc, d.val, RegKind, HasIndex, oob, fn)

parseAddress(st, Regs, RegKind, HasIndex, oob, fn) ==
  Ret(st,
      parseAddressDisp(parseExpression(st, fn), st.pos, RegKind, HasIndex, oob, fn),
      fn, "MatchOperandParserImpl", [RegKind |-> RegKind, HasIndex |-> HasIndex])

\* parseAccessReg taking any index with the prefix 'a'.
parseAccessRegPush_NoBound(l) ==
  IF l.res = "true" THEN R("NoMatch", l.st, 0)
  ELSE IF l.val.Prefix # "a"
    THEN R("ParseFail", Error(l.st, l.val.StartLoc, "invalid register"), 0)
  ELSE R("Success",
         push_back(l.st, createAccessReg(l.val.Number, l.val.StartLoc, l.val.EndLoc)),
         0)

\* parseAccessReg after its lexical parse l.
parseAccessRegPush(l) ==
  IF l.res = "true" THEN R("NoMatch", l.st, 0)
  ELSE IF l.val.Prefix # "a" \/ l.val.Number > 15
    THEN R("ParseFail", Error(l.st, l.val.StartLoc, "invalid register"), 0)
  ELSE R("Success",
         push_back(l.st, createAccessReg(l.val.Number, l.val.StartLoc, l.val.EndLoc)),
         0)

parseAccessReg(st) ==
  Ret(st, parseAccessRegPush(parseRegister(st, "parseAccessReg")),
      "parseAccessReg", "MatchOperandParserImpl", <<>>)

\* ------------------------------------------------- the custom routines

parseGR32(st, oob) ==
  parseRegisterOperands(st, "r", GR32Regs, "GR32Reg", FALSE, oob, "parseGR32")
parsePCReg(st, oob) ==
  parseRegisterOperands(st, "p", PCReg, "PCReg", FALSE, oob, "parsePCReg")
parseADDR32(st, oob) ==
  parseRegisterOperands(st, "r", GR32Regs, "ADDR32Reg", TRUE, oob, "parseADDR32")
parseFP32(st, oob) ==
  parseRegisterOperands(st, "f", FP32Regs, "FP32Reg", FALSE, oob, "parseFP32")
parseBDAddr32(st, oob) ==
  parseAddress(st, GR32Regs, "ADDR32Reg", FALSE, oob, "parseBDAddr32")
parseBDAddr64(st, oob) ==
  parseAddress(st, GR32Regs, "ADDR32Reg", FALSE, oob, "parseBDAddr64")
parseBDXAddr64(st, oob) ==
  parseAddress(st, GR32Regs, "ADDR32Reg", TRUE, oob, "parseBDXAddr64")

RegisterParsers == {"parseGR32", "parsePCReg", "parseADDR32", "parseFP32"}
AddressParsers == {"parseBDAddr32", "parseBDAddr64", "parseBDXAddr64"}
CustomParsers == RegisterParsers \cup AddressParsers \cup {"parseAccessReg"}

\* The generated dispatcher: the mnemonic's table gives the custom routine of
\* the next operand position (Operands.size() - 1, counted from 0), "none"
\* when the position has none.
MatchOperandParserImpl(st, parsers, oob) ==
  CASE Len(st.ops) \notin DOMAIN parsers -> R("NoMatch", st, 0)
    [] OTHER ->
      CASE parsers[Len(st.ops)] = "parseGR32" -> parseGR32(st, oob)
        [] parsers[Len(st.ops)] = "parsePCReg" -> parsePCReg(st, oob)
        [] parsers[Len(st.ops)] = "parseADDR32" -> parseADDR32(st, oob)
        [] parsers[Len(st.ops)] = "parseFP32" -> parseFP32(st, oob)
        [] parsers[Len(st.ops)] = "parseBDAddr32" -> parseBDAddr32(st, oob)
        [] parsers[Len(st.ops)] = "parseBDAddr64" -> parseBDAddr64(st, oob)
        [] parsers[Len(st.ops)] = "parseBDXAddr64" -> parseBDXAddr64(st, oob)
        [] parsers[Len(st.ops)] = "parseAccessReg" -> parseAccessReg(st)
        [] OTHER -> R("NoMatch", st, 0)

\* ------------------------------------------------------- parseOperand

\* "The only other type of operand is an immediate": e is the expression
\* parsed at StartLoc.
parseOperandImm(e, StartLoc) ==
  IF e.res = "true" THEN R("true", e.st, 0)
  ELSE R("false", push_back(e.st, createImm(e.val, StartLoc, e.st.pos - 1)), 0)

\* parseOperandGeneric retrying the generic parse after a ParseFail.
parseOperandGeneric_Retry(ResTy) ==
  IF ResTy.res = "Success" THEN R("false", ResTy.st, 0)
  ELSE parseOperandImm(parseExpression(ResTy.st, "parseOperand"), ResTy.st.pos)

\* parseOperand after the custom routine returned ResTy.
parseOperandGeneric(ResTy) ==
  IF ResTy.res = "Success" THEN R("false", ResTy.st, 0)
  ELSE IF ResTy.res = "ParseFail" THEN R("true", ResTy.st, 0)
  ELSE parseOperandImm(parseExpression(ResTy.st, "parseOperand"), ResTy.st.pos)

\* bool parseOperand(Operands, Mnemonic).
parseOperand(st, parsers, oob) ==
  Ret(st, parseOperandGeneric(MatchOperandParserImpl(st, parsers, oob)),
      "parseOperand", "ParseInstruction", <<>>)

\* --------------------------------------------------- ParseInstruction

\* ParseInstruction after a parseOperand returned r: the failure exit, the
\* loop over the commas, the check for a trailing token and the final Lex.
RECURSIVE ParseInstructionOperands(_, _, _)

\* ParseInstructionOperands returning on a failed operand without
\* eatToEndOfStatement.
ParseInstructionOperands_NoEat(r, parsers, oob) ==
  IF r.res = "true" THEN R("true", r.st, 0)
  ELSE IF Tok(r.st).k = "Comma"
    THEN ParseInstructionOperands(parseOperand(Lex(r.st), parsers, oob), parsers, oob)
  ELSE IF Tok(r.st).k # "EndOfStatement"
    THEN R("true",
           Error(eatToEndOfStatement(r.st), r.st.pos,
                 "unexpected token in argument list"),
           0)
  ELSE R("false", Lex(r.st), 0)

\* ParseInstructionOperands reading the location of the unexpected token after
\* eatToEndOfStatement.
ParseInstructionOperands_LocAfterEat(r, parsers, oob) ==
  IF r.res = "true" THEN R("true", eatToEndOfStatement(r.st), 0)
  ELSE IF Tok(r.st).k = "Comma"
    THEN ParseInstructionOperands(parseOperand(Lex(r.st), parsers, oob), parsers, oob)
  ELSE IF Tok(r.st).k # "EndOfStatement"
    THEN R("true",
           Error(eatToEndOfStatement(r.st), eatToEndOfStatement(r.st).pos,
                 "unexpected token in argument list"),
           0)
  ELSE R("false", Lex(r.st), 0)

\* ParseInstructionOperands returning success without the final Lex.
ParseInstructionOperands_NoLex(r, parsers, oob) ==
  IF r.res = "true" THEN R("true", eatToEndOfStatement(r.st), 0)
  ELSE IF Tok(r.st).k = "Comma"
    THEN ParseInstructionOperands(parseOperand(Lex(r.st), parsers, oob), parsers, oob)
  ELSE IF Tok(r.st).k # "EndOfStatement"
    THEN R("true",
           Error(eatToEndOfStatement(r.st), r.st.pos,
                 "unexpected token in argument list"),
           0)
  ELSE R("false", r.st, 0)

ParseInstructionOperands(r, parsers, oob) ==
  IF r.res = "true" THEN R("true", eatToEndOfStatement(r.st), 0)
  ELSE IF Tok(r.st).k = "Comma"
    THEN ParseInstructionOperands(parseOperand(Lex(r.st), parsers, oob), parsers, oob)
  ELSE IF Tok(r.st).k # "EndOfStatement"
    THEN R("true",
           Error(eatToEndOfStatement(r.st), r.st.pos,
                 "unexpected token in argument list"),
           0)
  ELSE R("false", Lex(r.st), 0)

\* ParseInstruction after the mnemonic's token was pushed.
ParseInstructionBody(s0, parsers, oob) ==
  IF Tok(s0).k = "EndOfStatement" THEN R("false", Lex(s0), 0)
  ELSE ParseInstructionOperands(parseOperand(s0, parsers, oob), parsers, oob)

ParseInstruction(st, Name, NameLoc, parsers, oob) ==
  Ret(st, ParseInstructionBody(push_back(st, createToken(Name, NameLoc)), parsers, oob),
      "ParseInstruction", "driver", [Name |-> Name, NameLoc |-> NameLoc])

\* ------------------------------------------------------ ParseRegister

\* ParseRegister after its lexical parse l; val is RegNo.
ParseRegisterNo(l) ==
  IF l.res = "true"
    THEN R("true", Error(l.st, l.val.StartLoc, "register expected"), 0)
  ELSE IF l.val.Prefix = "x" /\ l.val.Number < 16
    THEN R("false", l.st, GR32Regs[l.val.Number])
  ELSE IF l.val.Prefix = "f" /\ l.val.Number < 16
    THEN R("false", l.st, FP32Regs[l.val.Number])
  ELSE R("true", Error(l.st, l.val.StartLoc, "invalid register"), 0)

\* bool ParseRegister(RegNo, StartLoc, EndLoc): a register outside an operand
\* list.
ParseRegister(st) ==
  Ret(st, ParseRegisterNo(parseRegister(st, "ParseRegister")),
      "ParseRegister", "driver", <<>>)

\* ---------------------------------------------- the operand predicates

\* inRange with the upper bound left out of the range.
inRange_OpenMax(Expr, MinValue, MaxValue) ==
  IF Expr.isConst THEN Expr.value >= MinValue /\ Expr.value < MaxValue
  ELSE FALSE

\* inRange comparing the value field of whatever expression it is given.
inRange_AnyExpr(Expr, MinValue, MaxValue) ==
  Expr.value >= MinValue /\ Expr.value <= MaxValue

\* inRange(Expr, MinValue, MaxValue): a constant expression whose value lies
\* in [MinValue, MaxValue]; false for any other expression.
inRange(Expr, MinValue, MaxValue) ==
  IF Expr.isConst THEN Expr.value >= MinValue /\ Expr.value <= MaxValue
  ELSE FALSE

isToken(op) == op.Kind = "KindToken"
isReg(op) == op.Kind = "KindReg"
\* isReg(RegKind)
isRegOf(op, RegKind) == op.Kind = "KindReg" /\ op.RegKind = RegKind
isAccessReg(op) == op.Kind = "KindAccessReg"
isImm(op) == op.Kind = "KindImm"
\* isImm(MinValue, MaxValue)
isImmIn(op, MinValue, MaxValue) ==
  op.Kind = "KindImm" /\ inRange(op.Imm, MinValue, MaxValue)
isMem(op) == op.Kind = "KindMem"
\* isMem(RegKind, HasIndex) not looking at the index.
isMemOf_AnyIndex(op, RegKind, HasIndex) ==
  /\ op.Kind = "KindMem"
  /\ op.RegKind = RegKind

\* isMem(RegKind, HasIndex)
isMemOf(op, RegKind, HasIndex) ==
  /\ op.Kind = "KindMem"
  /\ op.RegKind = RegKind
  /\ (HasIndex \/ op.Index = 0)
isMemDisp12(op, RegKind, HasIndex) ==
  isMemOf(op, RegKind, HasIndex) /\ inRange(op.Disp, 0, 4095)
isMemDisp20(op, RegKind, HasIndex) ==
  isMemOf(op, RegKind, HasIndex) /\ inRange(op.Disp, -524288, 524287)

isPCReg(op) == isRegOf(op, "PCReg")
isGR32(op) == isRegOf(op, "GR32Reg")
isGR64(op) == isRegOf(op, "GR64Reg")
isGR128(op) == isRegOf(op, "GR128Reg")
isADDR32(op) == isRegOf(op, "ADDR32Reg")
isADDR64(op) == isRegOf(op, "ADDR64Reg")
isADDR128(op) == FALSE
isFP32(op) == isRegOf(op, "FP32Reg")
isFP64(op) == isRegOf(op, "FP64Reg")
isFP128(op) == isRegOf(op, "FP128Reg")
isBDAddr32Disp12(op) == isMemDisp12(op, "ADDR32Reg", FALSE)
isBDAddr32Disp20(op) == isMemDisp20(op, "ADDR32Reg", FALSE)
isBDAddr64Disp12(op) == isMemDisp12(op, "ADDR64Reg", FALSE)
isBDAddr64Disp20(op) == isMemDisp20(op, "ADDR64Reg", FALSE)
isBDXAddr64Disp12(op) == isMemDisp12(op, "ADDR64Reg", TRUE)
isBDXAddr64Disp20(op) == isMemDisp20(op, "ADDR64Reg", TRUE)
isU4Imm(op) == isImmIn(op, 0, 15)
isU6Imm(op) == isImmIn(op, 0, 63)
isU8Imm(op) == isImmIn(op, 0, 255)
isS8Imm(op) == isImmIn(op, -128, 127)
isU12Imm(op) == isImmIn(op, 0, 4096)
isS12Imm(op) == isImmIn(op, -2048, 2047)
isU16Imm(op) == isImmIn(op, 0, 65535)
isS16Imm(op) == isImmIn(op, -32768, 32767)
isU20Imm(op) == isImmIn(op, 0, 1048576)
isS20Imm(op) == isImmIn(op, -2048, 2047)
\* isImm(0, (1LL << 32) - 1): the upper bound lies above every value an
\* expression of the model holds (values are kept below 2^31), so only the
\* lower bound decides.
isU32Imm(op) == op.Kind = "KindImm" /\ op.Imm.isConst /\ op.Imm.value >= 0
\* isImm(-(1LL << 31), (1LL << 31) - 1)
isS32Imm(op) == isImmIn(op, -2147483647 - 1, 2147483647)

\* enum RegisterKind
RegisterKinds ==
  {"PCReg", "GR32Reg", "GR64Reg", "GR128Reg", "ADDR32Reg", "ADDR64Reg",
   "FP32Reg", "FP64Reg", "FP128Reg"}

\* The predicates the matcher's operand classes test.
RegClasses ==
  {"isPCReg", "isGR32", "isGR64", "isGR128", "isADDR32", "isADDR64",
   "isADDR128", "isFP32", "isFP64", "isFP128"}
MemClasses ==
  {"isBDAddr32Disp12", "isBDAddr32Disp20", "isBDAddr64Disp12",
   "isBDAddr64Disp20", "isBDXAddr64Disp12", "isBDXAddr64Disp20"}
ImmClasses ==
  {"isU4Imm", "isU6Imm", "isU8Imm", "isS8Imm", "isU12Imm", "isS12Imm",
   "isU16Imm", "isS16Imm", "isU20Imm", "isS20Imm", "isU32Imm", "isS32Imm"}
KindClasses == {"isToken", "isReg", "isAccessReg", "isImm", "isMem"}
Classes == KindClasses \cup RegClasses \cup MemClasses \cup ImmClasses

\* The operand op passes the predicate named c.
Passes(op, c) ==
  CASE c = "isToken" -> isToken(op)
    [] c = "isReg" -> isReg(op)
    [] c = "isAccessReg" -> isAccessReg(op)
    [] c = "isImm" -> isImm(op)
    [] c = "isMem" -> isMem(op)
    [] c = "isPCReg" -> isPCReg(op)
    [] c = "isGR32" -> isGR32(op)
    [] c = "isGR64" -> isGR64(op)
    [] c = "isGR128" -> isGR128(op)
    [] c = "isADDR32" -> isADDR32(op)
    [] c = "isADDR64" -> isADDR64(op)
    [] c = "isADDR128" -> isADDR128(op)
    [] c = "isFP32" -> isFP32(op)
    [] c = "isFP64" -> isFP64(op)
    [] c = "isFP128" -> isFP128(op)
    [] c = "isBDAddr32Disp12" -> isBDAddr32Disp12(op)
    [] c = "isBDAddr32Disp20" -> isBDAddr32Disp20(op)
    [] c = "isBDAddr64Disp12" -> isBDAddr64Disp12(op)
    [] c = "isBDAddr64Disp20" -> isBDAddr64Disp20(op)
    [] c = "isBDXAddr64Disp12" -> isBDXAddr64Disp12(op)
    [] c = "isBDXAddr64Disp20" -> isBDXAddr64Disp20(op)
    [] c = "isU4Imm" -> isU4Imm(op)
    [] c = "isU6Imm" -> isU6Imm(op)
    [] c = "isU8Imm" -> isU8Imm(op)
    [] c = "isS8Imm" -> isS8Imm(op)
    [] c = "isU12Imm" -> isU12Imm(op)
    [] c = "isS12Imm" -> isS12Imm(op)
    [] c = "isU16Imm" -> isU16Imm(op)
    [] c = "isS16Imm" -> isS16Imm(op)
    [] c = "isU20Imm" -> isU20Imm(op)
    [] c = "isS20Imm" -> isS20Imm(op)
    [] c = "isU32Imm" -> isU32Imm(op)
    [] c = "isS32Imm" -> isS32Imm(op)

\* The predicates each operand of ops passes, as the matcher finds them when
\* it tests the operands against the operand classes of the instructions.
ClassesOf(ops) == [k \in DOMAIN ops |-> {c \in Classes : Passes(ops[k], c)}]

\* ------------------------------------------- MatchAndEmitInstruction

\* unsigned is 32 bits wide; an unsigned value is the set of its set bits.
UnsignedBits == 32
AllOnes == 0 .. (UnsignedBits - 1)
\* The unsigned with the value n, 0 <= n < 2^16.
RECURSIVE BitsFrom(_, _)
BitsFrom(n, b) ==
  IF n = 0 THEN {}
  ELSE (IF n % 2 = 1 THEN {b} ELSE {}) \cup BitsFrom(n \div 2, b + 1)
Unsigned(n) == BitsFrom(n, 0)
\* Mask <<= 1: the bit shifted out of the word is lost.
ShiftLeft(Mask) == {b + 1 : b \in {x \in Mask : x + 1 < UnsignedBits}}
\* ErrorInfo >= Size for a size below 2^16.
\* The value of the low 16 bits of a word, from bit b on.
RECURSIVE LowValueFrom(_, _)
LowValueFrom(bits, b) ==
  IF b >= 16 THEN 0
  ELSE (IF b \in bits THEN 1 ELSE 0) + 2 * LowValueFrom(bits, b + 1)
LowValue(bits) == LowValueFrom(bits, 0)
\* ErrorInfo >= Size for a size below 2^16.
AtLeast(ErrorInfo, Size) ==
  (\E b \in ErrorInfo : b >= 16) \/ LowValue(ErrorInfo) >= Size

\* The null location SMLoc().
NullLoc == -1

\* getSubtargetFeatureName(Val) for a word with one bit set: each feature bit
\* has a name of its own, written here as the bit's position.
getSubtargetFeatureName(Val) == CHOOSE b \in Val : TRUE

\* The loop of Match_MissingFeature at the counter I with the mask Mask and
\* the names Msg appended to the message so far.
RECURSIVE MissingFeatureLoop(_, _, _, _)
MissingFeatureLoop(ErrorInfo, I, Mask, Msg) ==
  IF I < UnsignedBits - 1
  THEN MissingFeatureLoop(ErrorInfo, I + 1, ShiftLeft(Mask),
         IF ErrorInfo \cap Mask # {}
         THEN Append(Msg, getSubtargetFeatureName(ErrorInfo \cap Mask))
         ELSE Msg)
  ELSE Msg

\* Error(IDLoc, Msg) of Match_MissingFeature: the message is "instruction
\* requires:" followed by the names in Names.
ErrorRequires(st, loc, Names) ==
  [st EXCEPT !.diags =
     Append(@, [Loc |-> loc, Msg |-> "instruction requires:", Names |-> Names])]

\* Operands[Index], zero-based; outside the sequence the read finds no
\* operand, written as one without a location.
OperandAt(ops, Index) ==
  IF Index + 1 \in DOMAIN ops THEN ops[Index + 1]
  ELSE [Kind |-> "None", StartLoc |-> NullLoc, EndLoc |-> NullLoc]

\* Match_InvalidOperand with ErrorInfo an operand index, Op being what
\* Operands[ErrorInfo] read: ErrorLoc is Op's start location, or IDLoc when
\* that is the null location.  val is the kind of the operand read.
InvalidOperandAt(st, IDLoc, Op) ==
  R("true",
    Error(st, IF Op.StartLoc = NullLoc THEN IDLoc ELSE Op.StartLoc,
          "invalid operand for instruction"),
    Op.Kind)

\* Match_InvalidOperand indexing Operands without the check against its size.
MatchInvalidOperand_NoSizeCheck(st, IDLoc, ErrorInfo) ==
  IF ErrorInfo # AllOnes
  THEN InvalidOperandAt(st, IDLoc, OperandAt(st.ops, LowValue(ErrorInfo)))
  ELSE R("true", Error(st, IDLoc, "invalid operand for instruction"), "")

\* case Match_InvalidOperand; val is "" when no operand is read.
MatchInvalidOperand(st, IDLoc, ErrorInfo) ==
  IF ErrorInfo # AllOnes
  THEN IF AtLeast(ErrorInfo, Len(st.ops))
       THEN R("true", Error(st, IDLoc, "too few operands for instruction"), "")
       ELSE InvalidOperandAt(st, IDLoc, OperandAt(st.ops, LowValue(ErrorInfo)))
  ELSE R("true", Error(st, IDLoc, "invalid operand for instruction"), "")

\* The switch over MatchResult; on Match_Success the instruction is emitted.
MatchSwitch(st, IDLoc, MatchResult, ErrorInfo) ==
  CASE MatchResult = "Match_Success" -> R("false", st, "")
    [] MatchResult = "Match_MissingFeature" ->
         R("true",
           ErrorRequires(st, IDLoc,
                         MissingFeatureLoop(ErrorInfo, 0, Unsigned(1), <<>>)),
           "")
    [] MatchResult = "Match_InvalidOperand" ->
         MatchInvalidOperand(st, IDLoc, ErrorInfo)
    [] MatchResult = "Match_MnemonicFail" ->
         R("true", Error(st, IDLoc, "invalid instruction"), "")

\* bool MatchAndEmitInstruction(IDLoc, Opcode, Operands, Out, ErrorInfo,
\* MatchingInlineAsm), the matcher having returned MatchResult and ErrorInfo.
MatchAndEmitInstruction(st, IDLoc, MatchResult, ErrorInfo) ==
  Ret(st, MatchSwitch(st, IDLoc, MatchResult, ErrorInfo),
      "MatchAndEmitInstruction", "driver",
      [MatchResult |-> MatchResult, ErrorInfo |-> ErrorInfo])

\* ------------------------------------------------------- the statements

\* The register names the statements spell, each with the prefix and the index
\* it stands for (Number -1: not a decimal index).
NameTable ==
  { [s |-> <<"x", "0">>, Prefix |-> "x", Number |-> 0],
    [s |-> <<"x", "1">>, Prefix |-> "x", Number |-> 1],
    [s |-> <<"x", "2">>, Prefix |-> "x", Number |-> 2],
    [s |-> <<"x", "1", "5">>, Prefix |-> "x", Number |-> 15],
    [s |-> <<"x", "1", "6">>, Prefix |-> "x", Number |-> 16],
    [s |-> <<"r", "0">>, Prefix |-> "r", Number |-> 0],
    [s |-> <<"r", "1">>, Prefix |-> "r", Number |-> 1],
    [s |-> <<"r", "3", "1">>, Prefix |-> "r", Number |-> 31],
    [s |-> <<"f", "2">>, Prefix |-> "f", Number |-> 2],
    [s |-> <<"f", "1", "6">>, Prefix |-> "f", Number |-> 16],
    [s |-> <<"p", "0">>, Prefix |-> "p", Number |-> 0],
    [s |-> <<"p", "1">>, Prefix |-> "p", Number |-> 1],
    [s |-> <<"a", "0">>, Prefix |-> "a", Number |-> 0],
    [s |-> <<"a", "3">>, Prefix |-> "a", Number |-> 3],
    [s |-> <<"a", "1", "5">>, Prefix |-> "a", Number |-> 15],
    [s |-> <<"a", "1", "6">>, Prefix |-> "a", Number |-> 16],
    [s |-> <<"x">>, Prefix |-> "x", Number |-> -1],
    [s |-> <<"x", "z">>, Prefix |-> "x", Number |-> -1] }

Names == {n.s : n \in NameTable}
Reg(name) == <<Percent, Ident(name)>>
foo == <<"f", "o", "o">>

\* What stands first and second between the parentheses of an address.
FirstRegs ==
  {Reg(<<"x", "1">>), Reg(<<"x", "1", "5">>), Reg(<<"x", "0">>),
   Reg(<<"x", "1", "6">>), Reg(<<"r", "1">>), Reg(<<"x">>), Reg(<<"x", "z">>),
   <<Percent>>, <<Integer(5)>>, <<>>}
IndexRegs ==
  {Reg(<<"x", "1">>), Reg(<<"x", "0">>), Reg(<<"x", "1", "6">>), Reg(<<"x", "z">>)}
SecondRegs == {Reg(<<"x", "2">>), Reg(<<"x", "0">>), Reg(<<"x", "z">>)}
Disps == {<<Integer(4)>>, <<Ident(foo)>>}
Exprs == Disps \cup {<<Minus, Integer(1)>>}
Closers == {<<RParen>>, <<>>}
Tails ==
  {<<>>, <<Integer(5)>>, <<Comma, Integer(5)>>,
   <<Comma, Integer(4), LParen>> \o Reg(<<"x", "1">>) \o <<RParen>>}

Heads ==
  {<<>>, <<Percent>>}
  \cup Exprs
  \cup {Reg(n) : n \in Names}
  \cup {d \o <<LParen>> \o r \o c : d \in Disps, r \in FirstRegs, c \in Closers}
  \cup {d \o <<LParen>> \o r1 \o <<Comma>> \o r2 \o c :
          d \in Disps, r1 \in IndexRegs, r2 \in SecondRegs, c \in Closers}

\* Immediates at the ends of the ranges the predicates test; the lexer has
\* no negative integers, a negative immediate is '-' and an integer.
Edges ==
  {0, 15, 16, 63, 64, 127, 128, 255, 256, 2047, 2048, 4095, 4096, 32767, 32768,
   65535, 65536, 524287, 524288, 1048575, 1048576, 2147483647}
NegEdges == {1, 128, 129, 2048, 2049, 32768, 32769, 524288, 524289, 2147483647}
EdgeExprs ==
  {<<Integer(v)>> : v \in Edges} \cup {<<Minus, Integer(v)>> : v \in NegEdges}

\* A symbolic immediate followed by an address with a symbolic displacement.
SymbolicPair ==
  <<Ident(foo), Comma, Ident(foo), LParen>> \o Reg(<<"x", "1">>) \o <<RParen>>

Lines ==
  {h \o t \o <<EndOfStatement>> : h \in Heads, t \in Tails}
  \cup {e \o <<EndOfStatement>> : e \in EdgeExprs \cup {SymbolicPair}}

\* ---------------------------------------------------------- the machine

\* The number of operand positions the mnemonic's table of custom routines
\* covers.
MaxOperands == 2
\* The word an out-of-bounds read of a register table can find.
OOBValues == {0, 200}

\* The out-of-bounds words to try for a table of custom routines: only
\* parsePCReg passes a table shorter than the 16 indices it accepts.
OOB(parsers) ==
  IF \E i \in DOMAIN parsers : parsers[i] = "parsePCReg" THEN OOBValues ELSE {0}

Mnemonic == "op"

Init ==
  /\ line \in Lines
  /\ pos = 1
  /\ Operands = <<>>
  /\ Diags = <<>>
  /\ calls = <<>>
  /\ pc = "idle"
  /\ classes = <<>>

Entry == [pos |-> pos, ops |-> Operands, diags |-> Diags, log |-> calls]

\* The driver's call returned r.
Commit(r) ==
  /\ pos' = r.st.pos
  /\ Operands' = r.st.ops
  /\ Diags' = r.st.diags
  /\ calls' = r.st.log
  /\ pc' = "done"
  /\ UNCHANGED <<line, classes>>

\* The driver has read the mnemonic and calls ParseInstruction on the rest of
\* the statement.
DoParseInstruction ==
  /\ pc = "idle"
  /\ \E parsers \in [1..MaxOperands -> CustomParsers \cup {"none"}] :
       \E oob \in OOB(parsers) :
       Commit(ParseInstruction(Entry, Mnemonic, 0, parsers, oob))

\* The driver calls ParseRegister at the cursor (a register named in a
\* directive).
DoParseRegister ==
  /\ pc = "idle"
  /\ Commit(ParseRegister(Entry))

\* What the matcher (MatchInstructionImpl) can hand back: a result and, with
\* it, ErrorInfo: the word of missing feature bits of Match_MissingFeature
\* (never zero), or the index of the offending operand of Match_InvalidOperand
\* (~0U when there is none).
FeatureWords == {{0}, {30}, {31}, {0, 31}, {1, 30}}
MatchOutcomes ==
  {[MatchResult |-> m, ErrorInfo |-> Unsigned(0)] :
     m \in {"Match_Success", "Match_MnemonicFail"}}
  \cup {[MatchResult |-> "Match_MissingFeature", ErrorInfo |-> w] : w \in FeatureWords}
  \cup {[MatchResult |-> "Match_InvalidOperand", ErrorInfo |-> Unsigned(n)] :
          n \in 0 .. (MaxOperands + 1)}
  \cup {[MatchResult |-> "Match_InvalidOperand", ErrorInfo |-> AllOnes]}

\* The statement was parsed: ParseInstruction returned false.
InstructionParsed ==
  /\ calls # <<>>
  /\ calls[Len(calls)].fn = "ParseInstruction"
  /\ calls[Len(calls)].res = "false"

\* The driver's call of MatchAndEmitInstruction returned r.
Matched(r) ==
  /\ pos' = r.st.pos
  /\ Operands' = r.st.ops
  /\ Diags' = r.st.diags
  /\ calls' = r.st.log
  /\ pc' = "matched"
  /\ UNCHANGED line

\* The driver matches the parsed statement: the matcher tests the operands
\* against the operand classes and hands back its result; the instruction's
\* location IDLoc is that of its mnemonic.
DoMatchAndEmitInstruction ==
  /\ pc = "done"
  /\ InstructionParsed
  /\ classes' = ClassesOf(Operands)
  /\ \E m \in MatchOutcomes :
       Matched(MatchAndEmitInstruction([Entry EXCEPT !.log = <<>>], 0,
                                       m.MatchResult, m.ErrorInfo))

Next == DoParseInstruction \/ DoParseRegister \/ DoMatchAndEmitInstruction

Spec == Init /\ [][Next]_vars

\* ------------------------------------------------- reading the call log

CallsOf(fns) == {i \in DOMAIN calls : calls[i].fn \in fns}

\* The diagnostic call i reported, when it reported exactly one.
ReportedOne(i, loc, msg) ==
  /\ calls[i].diagsOut = calls[i].diagsIn + 1
  /\ Diags[calls[i].diagsOut] = [Loc |-> loc, Msg |-> msg]

\* Call i left the operand sequence as it found it.
OpsUnchanged(i) == calls[i].opsOut = calls[i].opsIn

\* Call i appended exactly one operand.
AppendedOne(i) ==
  /\ Len(calls[i].opsOut) = Len(calls[i].opsIn) + 1
  /\ SubSeq(calls[i].opsOut, 1, Len(calls[i].opsIn)) = calls[i].opsIn

Appended(i) == calls[i].opsOut[Len(calls[i].opsOut)]

\* The parseOperand call that made the custom-routine call i: the next
\* parseOperand return in the log.
OperandCallOf(i) ==
  CHOOSE j \in CallsOf({"parseOperand"}) :
    j > i /\ \A k \in CallsOf({"parseOperand"}) : k > i => j <= k

\* parseOperand call j went on to the generic expression parse.
TriedGeneric(j) ==
  j > 1 /\ calls[j - 1].fn = "parseExpression" /\ calls[j - 1].caller = "parseOperand"

\* The custom routine's call made by parseOperand call j, and what it returned
\* (NoMatch when the operand position has no custom routine).
CustomCallOf(j) == IF TriedGeneric(j) THEN j - 2 ELSE j - 1
HasCustom(j) ==
  /\ CustomCallOf(j) >= 1
  /\ calls[CustomCallOf(j)].fn \in CustomParsers
  /\ calls[CustomCallOf(j)].posIn = calls[j].posIn
  /\ calls[CustomCallOf(j)].opsIn = calls[j].opsIn
CustomRes(j) == IF HasCustom(j) THEN calls[CustomCallOf(j)].res ELSE "NoMatch"

\* The statement's parse failed.
InstructionFailed ==
  /\ calls # <<>>
  /\ calls[Len(calls)].fn = "ParseInstruction"
  /\ calls[Len(calls)].res = "true"

\* What the statement spells at token p, read off NameTable.
IsRegText(p) ==
  /\ p + 1 <= Len(line)
  /\ line[p] = Percent
  /\ line[p + 1].k = "Identifier"
  /\ \E n \in NameTable : n.s = line[p + 1].s /\ n.Number >= 0
RegText(p) == CHOOSE n \in NameTable : n.s = line[p + 1].s
\* A register an address accepts: x1 .. x15.
IsAddrReg(p) ==
  IsRegText(p) /\ RegText(p).Prefix = "x" /\ RegText(p).Number \in 1..15
\* A one-token displacement and the expression it denotes.
IsDispText(p) == p <= Len(line) /\ line[p].k \in {"Integer", "Identifier"}
DispText(p) ==
  IF line[p].k = "Integer" THEN ConstExpr(line[p].v) ELSE SymExpr(line[p].s)

\* Address call i got as far as a register list: the call before its return
\* is its last register parse.
HasRegList(i) ==
  /\ calls[i].fn \in AddressParsers
  /\ i > 1
  /\ calls[i - 1].fn = "parseRegister(Regs)"
  /\ calls[i - 1].caller = calls[i].fn
ParsedTwoRegs(i) ==
  /\ i > 3
  /\ calls[i - 3].fn = "parseRegister(Regs)"
  /\ calls[i - 3].caller = calls[i].fn
  /\ calls[i - 3].posIn > calls[i].posIn

\* Address call i consumed '(' and its registers and then met a token that is
\* not ')' (a comma after the first register opens the second one instead).
Unclosed(i) ==
  /\ HasRegList(i)
  /\ calls[i - 1].res = "Success"
  /\ line[calls[i - 1].posOut].k # "RParen"
  /\ line[calls[i - 1].posOut].k = "Comma" => ParsedTwoRegs(i)

\* ---------------------------------------------------------------- claims

\* C1: once parseAddress has consumed '(' and the register list, a next token
\* that is not ')' makes it return ParseFail: nothing is appended for the
\* address, parseOperand does not go on to the generic expression parse, and
\* ParseInstruction fails.
C1_UnclosedIsParseFail ==
  \A i \in CallsOf(AddressParsers) :
    Unclosed(i) =>
      /\ calls[i].res = "ParseFail"
      /\ OpsUnchanged(i)
      /\ ~TriedGeneric(OperandCallOf(i))
      /\ InstructionFailed

\* C2: a routine that returns NoMatch (the lexical parseRegister: true) leaves
\* the cursor on the token it was entered at.
C2_NoMatchConsumesNothing ==
  \A i \in CallsOf({"parseRegister", "parseRegister(Regs)", "parseAccessReg"}
                   \cup AddressParsers) :
    (calls[i].res = "NoMatch" \/ (calls[i].fn = "parseRegister" /\ calls[i].res = "true"))
      => calls[i].posOut = calls[i].posIn

\* The input of address call i is d(Ri,Rj) / d(Ri) with valid non-zero
\* registers and a one-token displacement.
TwoRegAddress(p) ==
  /\ p + 7 <= Len(line)
  /\ IsDispText(p)
  /\ line[p + 1] = LParen
  /\ IsAddrReg(p + 2)
  /\ line[p + 4] = Comma
  /\ IsAddrReg(p + 5)
  /\ line[p + 7] = RParen
OneRegAddress(p) ==
  /\ p + 4 <= Len(line)
  /\ IsDispText(p)
  /\ line[p + 1] = LParen
  /\ IsAddrReg(p + 2)
  /\ line[p + 4] = RParen

\* C3: with HasIndex, d(Ri,Rj) appends exactly one Memory operand with
\* index = id of Ri (listed first), base = id of Rj and displacement d.
C3_TwoRegsIndexThenBase ==
  \A i \in CallsOf(AddressParsers) :
    (calls[i].arg.HasIndex /\ TwoRegAddress(calls[i].posIn)) =>
      /\ calls[i].res = "Success"
      /\ AppendedOne(i)
      /\ Appended(i).Kind = "KindMem"
      /\ Appended(i).Index = RISCV_X(RegText(calls[i].posIn + 2).Number)
      /\ Appended(i).Base = RISCV_X(RegText(calls[i].posIn + 5).Number)
      /\ Appended(i).Disp = DispText(calls[i].posIn)

C3_Witness ==
  \E i \in CallsOf(AddressParsers) :
    /\ calls[i].arg.HasIndex
    /\ TwoRegAddress(calls[i].posIn)
    /\ calls[i].res = "Success"
    /\ Appended(i).Index # Appended(i).Base

\* C4: for every address routine, d(Ri) appends exactly one Memory operand
\* with base = id of Ri, index = 0 and displacement d.
C4_OneRegIsBase ==
  \A i \in CallsOf(AddressParsers) :
    OneRegAddress(calls[i].posIn) =>
      /\ calls[i].res = "Success"
      /\ AppendedOne(i)
      /\ Appended(i).Kind = "KindMem"
      /\ Appended(i).Base = RISCV_X(RegText(calls[i].posIn + 2).Number)
      /\ Appended(i).Index = 0
      /\ Appended(i).Disp = DispText(calls[i].posIn)

C4_Witness ==
  \E i \in CallsOf(AddressParsers) :
    /\ ~calls[i].arg.HasIndex
    /\ OneRegAddress(calls[i].posIn)
    /\ calls[i].res = "Success"
    /\ ~Appended(i).Disp.isConst

\* The input at p is d(Ri,Rj) with Ri and Rj registers of the x file.
IsXReg(p) == IsRegText(p) /\ RegText(p).Prefix = "x"
TwoXRegs(p) ==
  /\ p + 7 <= Len(line)
  /\ IsDispText(p)
  /\ line[p + 1] = LParen
  /\ IsXReg(p + 2)
  /\ line[p + 4] = Comma
  /\ IsXReg(p + 5)
  /\ line[p + 7] = RParen

IndexRefused(i) ==
  /\ calls[i].res = "ParseFail"
  /\ ReportedOne(i, calls[i].posIn + 2, "invalid use of indexed addressing")
  /\ OpsUnchanged(i)

\* C5 as claimed: without HasIndex, d(Ri,Rj) returns ParseFail, reports
\* 'invalid use of indexed addressing' at Ri and appends nothing, whatever
\* registers Ri and Rj are.
C5_IndexRefusedAnyReg ==
  \A i \in CallsOf(AddressParsers) :
    (~calls[i].arg.HasIndex /\ TwoXRegs(calls[i].posIn)) => IndexRefused(i)

\* C5 as amended: without HasIndex, d(Ri,Rj) with Ri a valid non-zero register
\* (x1 .. x15) returns ParseFail, reports 'invalid use of indexed addressing'
\* at the start of Ri and appends nothing.
C5_IndexRefusedValidReg ==
  \A i \in CallsOf(AddressParsers) :
    (/\ ~calls[i].arg.HasIndex
     /\ TwoXRegs(calls[i].posIn)
     /\ IsAddrReg(calls[i].posIn + 2)) => IndexRefused(i)

C5_Witness ==
  \E i \in CallsOf(AddressParsers) :
    /\ ~calls[i].arg.HasIndex
    /\ TwoXRegs(calls[i].posIn)
    /\ IsAddrReg(calls[i].posIn + 2)
    /\ calls[i].res = "ParseFail"

\* C6: parseOperand goes on to the generic expression parse exactly when the
\* custom routine returned NoMatch; on Success it returns false and on
\* ParseFail true, in both cases leaving the cursor and the operands as the
\* custom routine left them.
C6_GenericOnlyOnNoMatch ==
  \A j \in CallsOf({"parseOperand"}) :
    /\ TriedGeneric(j) <=> CustomRes(j) = "NoMatch"
    /\ CustomRes(j) \in {"Success", "ParseFail"} =>
         /\ calls[j].res = (IF CustomRes(j) = "Success" THEN "false" ELSE "true")
         /\ calls[j].posOut = calls[j - 1].posOut
         /\ calls[j].opsOut = calls[j - 1].opsOut
         /\ calls[j].diagsOut = calls[j - 1].diagsOut
    /\ CustomRes(j) = "ParseFail" => OpsUnchanged(j)

\* A custom routine failed on a token the expression parser would accept.
C6_Witness ==
  \E j \in CallsOf({"parseOperand"}) :
    /\ CustomRes(j) = "ParseFail"
    /\ line[calls[j].posOut].k \in {"Integer", "Identifier"}
    /\ ~TriedGeneric(j)

\* C7: a register between the parentheses that does not parse aborts the
\* address: parseAddress returns ParseFail and appends nothing, parseOperand
\* does not go on to the generic parse, and the statement fails.
C7_BadRegisterAbortsAddress ==
  \A i \in CallsOf(AddressParsers) :
    (HasRegList(i) /\ calls[i - 1].res # "Success") =>
      /\ calls[i].res = "ParseFail"
      /\ OpsUnchanged(i)
      /\ ~TriedGeneric(OperandCallOf(i))
      /\ InstructionFailed

\* The resolver call i was given a well-formed name with its own prefix.
ResolvesName(i) ==
  /\ IsRegText(calls[i].posIn)
  /\ RegText(calls[i].posIn).Prefix = calls[i].arg.Prefix
NumberOf(i) == RegText(calls[i].posIn).Number

C9_NoZeroRegisterInAddress ==
  /\ \A i \in CallsOf({"parseRegister(Regs)"}) :
       (ResolvesName(i) /\ NumberOf(i) = 0) =>
         IF calls[i].arg.IsAddress
         THEN /\ calls[i].res = "ParseFail"
              /\ ReportedOne(i, calls[i].posIn, "%r0 used in an address")
         ELSE /\ calls[i].res = "Success"
              /\ calls[i].val.Number = calls[i].arg.Regs[0]
  /\ \A i \in DOMAIN calls : \A k \in DOMAIN calls[i].opsOut :
       calls[i].opsOut[k].Kind = "KindMem" =>
         /\ calls[i].opsOut[k].Base # RISCV_X(0)
         /\ calls[i].opsOut[k].Index # RISCV_X(0)

C9_Witness ==
  \E i \in CallsOf({"parseRegister(Regs)"}) :
    /\ ResolvesName(i)
    /\ NumberOf(i) = 0
    /\ calls[i].arg.IsAddress
    /\ calls[i].caller \in AddressParsers
    /\ calls[i].res = "ParseFail"

\* C10: when ParseInstruction returns failure the whole statement has been
\* consumed: the cursor is past its EndOfStatement.
C10_FailureEatsStatement ==
  InstructionFailed => pos = Len(line) + 1

\* An operand failed with tokens of the statement still ahead.
C10_Witness ==
  /\ InstructionFailed
  /\ \E j \in CallsOf({"parseOperand"}) :
       calls[j].res = "true" /\ calls[j].posOut < Len(line)

\* The parseOperand call j succeeded and left the cursor on a token that is
\* neither a comma nor the end of the statement.
TrailingToken(j) ==
  /\ calls[j].fn = "parseOperand"
  /\ calls[j].res = "false"
  /\ line[calls[j].posOut].k \notin {"Comma", "EndOfStatement"}

\* C11: when the token after a parsed operand is neither a comma nor the end
\* of the statement, ParseInstruction fails and its diagnostic 'unexpected
\* token in argument list' is located at that token, where the cursor stood
\* before the rest of the statement was eaten.
C11_TrailingTokenLocated ==
  \A j \in DOMAIN calls :
    TrailingToken(j) =>
      /\ InstructionFailed
      /\ j = Len(calls) - 1
      /\ Len(Diags) = calls[j].diagsOut + 1
      /\ Diags[Len(Diags)] =
           [Loc |-> calls[j].posOut, Msg |-> "unexpected token in argument list"]

\* The unexpected token is not the last one of the statement, so the cursor
\* after recovery is elsewhere.
C11_Witness ==
  \E j \in DOMAIN calls :
    /\ TrailingToken(j)
    /\ InstructionFailed
    /\ calls[j].posOut + 1 < Len(line)

\* C12: a statement that ParseInstruction fails on has produced exactly one
\* diagnostic (the expression parser reporting one diagnostic of its own when
\* it fails).
C12_OneDiagnosticPerFailure ==
  InstructionFailed => Len(Diags) = 1

\* The driver's latest call was MatchAndEmitInstruction and the matcher had
\* returned the result m.
MatchReturned(m) ==
  /\ pc = "matched"
  /\ calls[Len(calls)].fn = "MatchAndEmitInstruction"
  /\ calls[Len(calls)].arg.MatchResult = m
ErrorInfoOf == calls[Len(calls)].arg.ErrorInfo
LastDiag == Diags[Len(Diags)]
\* How many times the name of feature bit b stands in the names Msg.
TimesNamed(Msg, b) == Cardinality({k \in DOMAIN Msg : Msg[k] = b})

\* C13: on Match_MissingFeature the one diagnostic, at IDLoc, names every set
\* bit of the 32-bit ErrorInfo exactly once and no clear bit, for each of the
\* 32 bit positions.
C13_EveryFeatureBitNamed ==
  MatchReturned("Match_MissingFeature") =>
    /\ calls[Len(calls)].res = "true"
    /\ calls[Len(calls)].diagsOut = calls[Len(calls)].diagsIn + 1
    /\ LastDiag.Loc = 0
    /\ LastDiag.Msg = "instruction requires:"
    /\ \A b \in 0 .. (UnsignedBits - 1) :
         TimesNamed(LastDiag.Names, b) = (IF b \in ErrorInfoOf THEN 1 ELSE 0)

\* Operand k of the matched statement is a constant immediate with value v.
IsConstImm(k, v) ==
  /\ Operands[k].Kind = "KindImm"
  /\ Operands[k].Imm.isConst
  /\ Operands[k].Imm.value = v

\* C14: for a constant immediate, isU4Imm accepts 0 and 15 and rejects -1 and
\* 16, and isS12Imm accepts -2048 and 2047 and rejects -2049 and 2048.
C14_ExactBoundaries ==
  pc = "matched" =>
    \A k \in DOMAIN Operands :
      /\ (IsConstImm(k, 0) \/ IsConstImm(k, 15)) => "isU4Imm" \in classes[k]
      /\ (IsConstImm(k, -1) \/ IsConstImm(k, 16)) => "isU4Imm" \notin classes[k]
      /\ (IsConstImm(k, -2048) \/ IsConstImm(k, 2047)) => "isS12Imm" \in classes[k]
      /\ (IsConstImm(k, -2049) \/ IsConstImm(k, 2048)) => "isS12Imm" \notin classes[k]

\* The matcher accepted 15 as a 4-bit unsigned immediate.
C14_Witness ==
  /\ pc = "matched"
  /\ \E k \in DOMAIN Operands : IsConstImm(k, 15) /\ "isU4Imm" \in classes[k]

\* Operand k holds an expression that is not a constant: a symbolic
\* immediate, or a memory operand with a symbolic displacement.
IsSymbolicImm(k) == Operands[k].Kind = "KindImm" /\ ~Operands[k].Imm.isConst
IsSymbolicMem(k) == Operands[k].Kind = "KindMem" /\ ~Operands[k].Disp.isConst
\* Bounds to try isImm(MinValue, MaxValue) with, the whole range of the
\* model's integers among them.
RangeEnds == {-2147483647 - 1, -1, 0, 1, 2147483647}

\* C15: an immediate or displacement that is not a constant expression passes
\* no range predicate: no isU*Imm / isS*Imm and no isImm(min, max) for an
\* immediate, no isBD*Addr* and no isMemDisp12 / isMemDisp20 for a memory
\* operand.
C15_SymbolicFailsRanges ==
  pc = "matched" =>
    \A k \in DOMAIN Operands :
      /\ IsSymbolicImm(k) =>
           /\ classes[k] \cap ImmClasses = {}
           /\ \A lo \in RangeEnds, hi \in RangeEnds : ~isImmIn(Operands[k], lo, hi)
      /\ IsSymbolicMem(k) =>
           /\ classes[k] \cap MemClasses = {}
           /\ \A HasIndex \in BOOLEAN :
                /\ ~isMemDisp12(Operands[k], Operands[k].RegKind, HasIndex)
                /\ ~isMemDisp20(Operands[k], Operands[k].RegKind, HasIndex)

\* A statement with a symbolic immediate and a symbolic displacement matched.
C15_Witness ==
  /\ pc = "matched"
  /\ \E k \in DOMAIN Operands : IsSymbolicImm(k) /\ "isImm" \in classes[k]
  /\ \E k \in DOMAIN Operands : IsSymbolicMem(k) /\ "isMem" \in classes[k]

\* The predicates of the addressing modes without an index.
BDAddrClasses ==
  {"isBDAddr32Disp12", "isBDAddr32Disp20", "isBDAddr64Disp12", "isBDAddr64Disp20"}

\* C16: a Memory operand appended by an address routine called without
\* HasIndex has index 0, and a Memory operand with a non-zero index fails
\* isMem(RegKind, false) for every RegKind and so every isBDAddr* predicate.
C16_IndexOnlyWhereAllowed ==
  /\ \A i \in CallsOf(AddressParsers) :
       (~calls[i].arg.HasIndex /\ calls[i].res = "Success") =>
         /\ AppendedOne(i)
         /\ Appended(i).Kind = "KindMem"
         /\ Appended(i).Index = 0
  /\ \A k \in DOMAIN Operands :
       (Operands[k].Kind = "KindMem" /\ Operands[k].Index # 0) =>
         /\ \A RegKind \in RegisterKinds : ~isMemOf(Operands[k], RegKind, FALSE)
         /\ pc = "matched" => classes[k] \cap BDAddrClasses = {}

\* An indexed address whose register kind and displacement alone would pass
\* isBDAddr32Disp12 was matched.
C16_Witness ==
  /\ pc = "matched"
  /\ \E k \in DOMAIN Operands :
       /\ Operands[k].Kind = "KindMem"
       /\ Operands[k].Index # 0
       /\ Operands[k].RegKind = "ADDR32Reg"
       /\ inRange(Operands[k].Disp, 0, 4095)
       /\ "isBDAddr32Disp12" \notin classes[k]

\* ErrorInfo of the latest match is an index into Operands.
ValidIndex ==
  /\ ErrorInfoOf # AllOnes
  /\ ~AtLeast(ErrorInfoOf, Len(Operands))
ErrorOperand == Operands[LowValue(ErrorInfoOf) + 1]

\* C17: on Match_InvalidOperand the one diagnostic is located at the start
\* location of operand ErrorInfo when ErrorInfo is an index into Operands (and
\* that location is set), and at IDLoc when ErrorInfo is ~0 or is at least the
\* number of operands; no operand is read outside Operands.
C17_InvalidOperandLocated ==
  MatchReturned("Match_InvalidOperand") =>
    /\ calls[Len(calls)].res = "true"
    /\ calls[Len(calls)].diagsOut = calls[Len(calls)].diagsIn + 1
    /\ calls[Len(calls)].val # "None"
    /\ IF ValidIndex
       THEN /\ calls[Len(calls)].val = ErrorOperand.Kind
            /\ ErrorOperand.StartLoc # NullLoc =>
                 LastDiag = [Loc |-> ErrorOperand.StartLoc,
                             Msg |-> "invalid operand for instruction"]
       ELSE /\ calls[Len(calls)].val = ""
            /\ LastDiag.Loc = 0

\* The diagnostic went to an operand after the mnemonic, away from IDLoc.
C17_Witness ==
  /\ MatchReturned("Match_InvalidOperand")
  /\ ValidIndex
  /\ LowValue(ErrorInfoOf) = 2
  /\ LastDiag.Loc = ErrorOperand.StartLoc
  /\ LastDiag.Loc # 0

\* The operand parses of the statement, and the place of parse j among them.
OperandCalls == CallsOf({"parseOperand"})
PlaceOf(j) == Cardinality({i \in OperandCalls : i <= j})

\* C18: when ParseInstruction returns success after k operand parses
\* separated by commas, Operands has k + 1 entries: entry 0 is the Token of
\* the mnemonic, entry n is what the n-th operand parse appended, in source
\* order, and the cursor is just past the EndOfStatement that followed the
\* last operand.
C18_MnemonicThenOperands ==
  (pc = "done" /\ InstructionParsed) =>
    /\ Len(Operands) = Cardinality(OperandCalls) + 1
    /\ Operands[1] = createToken(Mnemonic, 0)
    /\ pos = Len(line) + 1
    /\ OperandCalls = {} => line = <<EndOfStatement>>
    /\ \A j \in OperandCalls :
         /\ calls[j].res = "false"
         /\ AppendedOne(j)
         /\ Len(calls[j].opsIn) = PlaceOf(j)
         /\ Operands[PlaceOf(j) + 1] = Appended(j)
         /\ Appended(j).StartLoc >= calls[j].posIn
         /\ Appended(j).EndLoc < calls[j].posOut
         /\ calls[j].posIn = (IF PlaceOf(j) = 1 THEN 1
                              ELSE Operands[PlaceOf(j)].EndLoc + 2)
         /\ line[calls[j].posOut] =
              (IF PlaceOf(j) = Cardinality(OperandCalls) THEN EndOfStatement
               ELSE Comma)
         /\ PlaceOf(j) = Cardinality(OperandCalls) => calls[j].posOut = Len(line)

\* A statement of two operands was parsed.
C18_Witness ==
  /\ pc = "done"
  /\ InstructionParsed
  /\ Cardinality(OperandCalls) = 2
  /\ Len(Operands) = 3
  /\ Operands[2].StartLoc < Operands[3].StartLoc

\* C19: parseAccessReg on a well-formed register name: with the prefix 'a' and
\* an index n in 0..15 it appends one AccessRegister operand whose number is
\* n itself, which passes isAccessReg, fails isReg and passes no register
\* class predicate; with n > 15 or another prefix it returns ParseFail,
\* reports 'invalid register' at the name and appends nothing.
C19_AccessRegIdentity ==
  \A i \in CallsOf({"parseAccessReg"}) :
    IsRegText(calls[i].posIn) =>
      IF RegText(calls[i].posIn).Prefix = "a" /\ NumberOf(i) \in 0..15
      THEN /\ calls[i].res = "Success"
           /\ AppendedOne(i)
           /\ Appended(i).Kind = "KindAccessReg"
           /\ Appended(i).AccessReg = NumberOf(i)
           /\ isAccessReg(Appended(i))
           /\ ~isReg(Appended(i))
           /\ \A c \in RegClasses : ~Passes(Appended(i), c)
      ELSE /\ calls[i].res = "ParseFail"
           /\ ReportedOne(i, calls[i].posIn, "invalid register")
           /\ OpsUnchanged(i)

\* The last access register, a15, was appended under its own number.
C19_Witness ==
  \E i \in CallsOf({"parseAccessReg"}) :
    /\ IsRegText(calls[i].posIn)
    /\ RegText(calls[i].posIn).Prefix = "a"
    /\ NumberOf(i) = 15
    /\ calls[i].res = "Success"
    /\ Appended(i).AccessReg = 15

\* The width each width-named predicate states in its name.
UnsignedWidths ==
  {[c |-> "isU4Imm", n |-> 4], [c |-> "isU6Imm", n |-> 6], [c |-> "isU8Imm", n |-> 8],
   [c |-> "isU12Imm", n |-> 12], [c |-> "isU16Imm", n |-> 16],
   [c |-> "isU20Imm", n |-> 20], [c |-> "isU32Imm", n |-> 32]}
SignedWidths ==
  {[c |-> "isS8Imm", n |-> 8], [c |-> "isS12Imm", n |-> 12], [c |-> "isS16Imm", n |-> 16],
   [c |-> "isS20Imm", n |-> 20], [c |-> "isS32Imm", n |-> 32]}
\* v lies in the n-bit range; every value of the model lies within 32 bits
\* signed, so for n = 32 only the sign is left to decide.
FitsUnsigned(v, n) == v >= 0 /\ (n >= 32 \/ v <= 2 ^ n - 1)
FitsSigned(v, n) == n >= 32 \/ (v >= -(2 ^ (n - 1)) /\ v <= 2 ^ (n - 1) - 1)

\* C20: for a constant immediate v, isU<n>Imm accepts v exactly when
\* 0 <= v <= 2^n - 1 (n in 4, 6, 8, 12, 16, 20, 32) and isS<n>Imm exactly
\* when -2^(n-1) <= v <= 2^(n-1) - 1 (n in 8, 12, 16, 20, 32).
C20_WidthNamedRanges ==
  pc = "matched" =>
    \A k \in DOMAIN Operands :
      (Operands[k].Kind = "KindImm" /\ Operands[k].Imm.isConst) =>
        /\ \A w \in UnsignedWidths :
             w.c \in classes[k] <=> FitsUnsigned(Operands[k].Imm.value, w.n)
        /\ \A w \in SignedWidths :
             w.c \in classes[k] <=> FitsSigned(Operands[k].Imm.value, w.n)

\* The lexical parse made by call i delivered a register, and what it
\* delivered.
LexedReg(i) ==
  /\ i > 1
  /\ calls[i - 1].fn = "parseRegister"
  /\ calls[i - 1].caller = calls[i].fn
  /\ calls[i - 1].res = "false"
Lexed(i) == calls[i - 1].val
\* The resolver call i got as far as reading Regs[Reg.Number]: the prefix is
\* its own and the number is not above 15.
ReadsTable(i) ==
  /\ LexedReg(i)
  /\ Lexed(i).Prefix = calls[i].arg.Prefix
  /\ Lexed(i).Number <= 15

\* C21: every read Regs[Reg.Number] is inside the table read: in the
\* resolver, whatever table its caller passed (1 entry for PCReg, 32 for
\* GR32Regs and FP32Regs), and in ParseRegister, which reads GR32Regs for the
\* prefix 'x' and FP32Regs for 'f'.
C21_TableReadsInBounds ==
  /\ \A i \in CallsOf({"parseRegister(Regs)"}) :
       ReadsTable(i) => Lexed(i).Number \in DOMAIN calls[i].arg.Regs
  /\ \A i \in CallsOf({"ParseRegister"}) :
       (LexedReg(i) /\ Lexed(i).Number < 16) =>
         /\ Lexed(i).Prefix = "x" => Lexed(i).Number \in DOMAIN GR32Regs
         /\ Lexed(i).Prefix = "f" => Lexed(i).Number \in DOMAIN FP32Regs

\* The predicates of the addressing family of each address routine, for a
\* 12-bit unsigned and for a 20-bit signed displacement.
FamilyDisp12(fn) ==
  CASE fn = "parseBDAddr32" -> "isBDAddr32Disp12"
    [] fn = "parseBDAddr64" -> "isBDAddr64Disp12"
    [] fn = "parseBDXAddr64" -> "isBDXAddr64Disp12"
FamilyDisp20(fn) ==
  CASE fn = "parseBDAddr32" -> "isBDAddr32Disp20"
    [] fn = "parseBDAddr64" -> "isBDAddr64Disp20"
    [] fn = "parseBDXAddr64" -> "isBDXAddr64Disp20"
ConstDispIn(op, lo, hi) ==
  op.Disp.isConst /\ op.Disp.value >= lo /\ op.Disp.value <= hi

\* C22: the Memory operand an address routine appends passes the predicate
\* of the routine's own addressing family: the Disp12 one when its
\* displacement is a constant in 0..4095, the Disp20 one when it is a
\* constant in -524288..524287.
C22_FamilyPredicateHolds ==
  \A i \in CallsOf(AddressParsers) :
    calls[i].res = "Success" =>
      /\ ConstDispIn(Appended(i), 0, 4095) =>
           Passes(Appended(i), FamilyDisp12(calls[i].fn))
      /\ ConstDispIn(Appended(i), -524288, 524287) =>
           Passes(Appended(i), FamilyDisp20(calls[i].fn))

\* C23: an operand routine (the operand-appending parseRegister behind
\* parseGR32, parsePCReg, parseADDR32 and parseFP32, parseAddress behind the
\* address routines, and parseAccessReg) appends exactly one operand when it
\* returns Success and leaves the operand sequence as it found it when it
\* returns NoMatch or ParseFail.
C23_OperandsChangeOnlyOnSuccess ==
  \A i \in CallsOf(CustomParsers) :
    /\ calls[i].res \in {"Success", "NoMatch", "ParseFail"}
    /\ IF calls[i].res = "Success" THEN AppendedOne(i) ELSE OpsUnchanged(i)

\* A register routine refused the second operand of a statement and left the
\* first one and the mnemonic in place.
C23_Witness ==
  \E i \in CallsOf(RegisterParsers) :
    /\ calls[i].res = "ParseFail"
    /\ Len(calls[i].opsIn) = 2
    /\ calls[i].opsOut = calls[i].opsIn

====
